---- MODULE Spec2Model ----
(***************************************************************************)
(* State-machine model of the MPV IPC controller of server.py:             *)
(* MPVController (connect, send_command, the facade methods, close), the   *)
(* mpv_command WebSocket handler that drives the shared global controller  *)
(* `mpv`, and the environment it talks to (the socket endpoint, the player *)
(* at the other end of each connection, the garbage collector).            *)
(*                                                                         *)
(* Every statement of connect/send_command/close that reads or writes the  *)
(* shared fields self.socket / self.connected, or touches the transport,   *)
(* is one atomic step of the calling thread; pc gives each thread's        *)
(* position.                                                               *)
(***************************************************************************)
EXTENDS Integers, Sequences, FiniteSets, TLC

\* ---------------------------------------------------------------- bounds
\* socket objects ever created by connect()
MaxSockets == 2
\* calls (API calls and mpv_command events) ever issued
MaxCalls == 3

\* handler threads that may run on the shared controller at once
Callers == {"t1", "t2"}
\* the single caller of the sequential specification
SeqCallers == {"t1"}

VARIABLES
    endpoint,   \* the path CONFIG['MPV_SOCKET']: "absent" | "stale" | "listening"
    socks,      \* socket objects: handle -> [st, peer, inbuf, srvq]
    nsock,      \* number of socket objects created so far
    socket,     \* self.socket: 0 is None, otherwise a handle
    connected,  \* self.connected
    pc,         \* per thread: position in the code
    call,       \* per thread: the call being served [ev, fn, a]
    cmd,        \* per thread: send_command's (command, *args)
    id,         \* per thread: submission number of the current call
    held,       \* per thread: the socket object its transport call acts on
    result,     \* per thread: value returned by the controller call
    outcome,    \* per thread: the path by which the last call returned
    status,     \* per thread: player_status broadcast by the handler
    cres,       \* per thread: command_result emitted by the handler
    nexec,      \* per thread: send_command invocations of the current call
    nconn,      \* per thread: connect() invocations of the current call
    nwrite,     \* per thread: sendall invocations of the current call
    nread,      \* per thread: recv invocations of the current call
    nextId,     \* next submission number
    sent,       \* per thread: the bytes its sendall handed to the transport
    unread      \* records the transport accepted that no recv has followed yet

vars == <<endpoint, socks, nsock, socket, connected, pc, call, cmd, id, held,
          result, outcome, status, cres, nexec, nconn, nwrite, nread,
          nextId, sent, unread>>

ctl == <<socket, connected>>
env == <<endpoint, socks, nsock>>
counters == <<nexec, nconn, nwrite, nread>>
wire == <<unread>>
emits == <<status, cres>>

\* ---------------------------------------------------------------- values
\* JSON values a command argument can take
StrV(s) == [k |-> "str", s |-> s, n |-> 0, b |-> FALSE]
IntV(n) == [k |-> "int", s |-> "", n |-> n, b |-> FALSE]
BoolV(b) == [k |-> "bool", s |-> "", n |-> 0, b |-> b]
Null == [k |-> "null", s |-> "", n |-> 0, b |-> FALSE]

\* json.dumps of one value
JsonOf(v) ==
    CASE v.k = "str" -> "\"" \o v.s \o "\""
      [] v.k = "int" -> ToString(v.n)
      [] v.k = "bool" -> (IF v.b THEN "true" ELSE "false")
      [] OTHER -> "null"

RECURSIVE JsonList(_)
\* json.dumps of the elements of a list, separated by ", "
JsonList(xs) ==
    IF xs = <<>> THEN ""
    ELSE IF Len(xs) = 1 THEN JsonOf(xs[1])
    ELSE JsonOf(xs[1]) \o ", " \o JsonList(Tail(xs))

\* send_command lines 82-83: cmd = {'command': [command] + list(args)};
\* cmd_json = json.dumps(cmd) + '\n'
Encode(c) == "{\"command\": [" \o JsonList(c) \o "]}\n"

\* ---------------------------------------------------------------- facade
play(file_path) == <<StrV("loadfile"), file_path>>
pause == <<StrV("set_property"), StrV("pause"), BoolV(TRUE)>>
resume == <<StrV("set_property"), StrV("pause"), BoolV(FALSE)>>
stop == <<StrV("stop")>>
seek(seconds) == <<StrV("seek"), seconds>>
\* a set_volume that names the wrong property
set_volume_pause(volume) == <<StrV("set_property"), StrV("pause"), volume>>
set_volume(volume) == <<StrV("set_property"), StrV("volume"), volume>>
get_property(property_name) == <<StrV("get_property"), property_name>>

\* the (command, *args) a facade method hands to send_command
Facade(fn, a) ==
    CASE fn = "play" -> play(a)
      [] fn = "pause" -> pause
      [] fn = "resume" -> resume
      [] fn = "stop" -> stop
      [] fn = "seek" -> seek(a)
      [] fn = "set_volume" -> set_volume(a)
      [] fn = "get_property" -> get_property(a)
      [] OTHER -> <<>>

FacadeFns == {"play", "pause", "resume", "stop", "seek", "set_volume", "get_property"}

\* volumes tried: below, inside (both ends and the middle) and above 0..100
Volumes == {IntV(-5), IntV(0), IntV(50), IntV(100), IntV(150)}

\* direct calls of the controller's public methods
ApiCalls ==
    {[ev |-> "", fn |-> "connect", a |-> Null],
     [ev |-> "", fn |-> "close", a |-> Null],
     [ev |-> "", fn |-> "play", a |-> StrV("a.mp4")],
     [ev |-> "", fn |-> "pause", a |-> Null],
     [ev |-> "", fn |-> "resume", a |-> Null],
     [ev |-> "", fn |-> "stop", a |-> Null],
     [ev |-> "", fn |-> "seek", a |-> IntV(10)],
     [ev |-> "", fn |-> "get_property", a |-> StrV("bogus")]}
    \cup {[ev |-> "", fn |-> "set_volume", a |-> v] : v \in Volumes}

\* mpv_command events: data = {command, args}; absent marks a missing key
Absent == [k |-> "absent", s |-> "", n |-> 0, b |-> FALSE]
Events ==
    {[command |-> "play", arg |-> StrV("a.mp4")],
     [command |-> "play", arg |-> Absent],
     [command |-> "pause", arg |-> Absent],
     [command |-> "resume", arg |-> Absent],
     [command |-> "stop", arg |-> Absent],
     [command |-> "seek", arg |-> Absent],
     [command |-> "volume", arg |-> Absent],
     [command |-> "volume", arg |-> IntV(150)],
     [command |-> "bogus", arg |-> Absent]}

\* handle_mpv_command lines 283-308: the controller method an event reaches
\* and its argument; fn "none" when no branch calls the controller
handle_mpv_command(data) ==
    CASE data.command = "play" ->
            IF data.arg # Absent
            THEN [ev |-> "play", fn |-> "play", a |-> data.arg]
            ELSE [ev |-> "play", fn |-> "none", a |-> Null]
      [] data.command = "pause" -> [ev |-> "pause", fn |-> "pause", a |-> Null]
      [] data.command = "resume" -> [ev |-> "resume", fn |-> "resume", a |-> Null]
      [] data.command = "stop" -> [ev |-> "stop", fn |-> "stop", a |-> Null]
      [] data.command = "volume" ->
            [ev |-> "volume", fn |-> "set_volume",
             a |-> IF data.arg # Absent THEN data.arg ELSE IntV(100)]
      [] data.command = "seek" ->
            [ev |-> "seek", fn |-> "seek",
             a |-> IF data.arg # Absent THEN data.arg ELSE IntV(10)]
      [] OTHER -> [ev |-> data.command, fn |-> "none", a |-> Null]

EventCalls == {handle_mpv_command(d) : d \in Events}
Calls == ApiCalls \cup EventCalls
NoCall == [ev |-> "", fn |-> "none", a |-> Null]

\* ---------------------------------------------------------------- results
None == [k |-> "none", to |-> 0, error |-> ""]
Pending == [k |-> "pending", to |-> 0, error |-> ""]
True == [k |-> "true", to |-> 0, error |-> ""]
False == [k |-> "false", to |-> 0, error |-> ""]
\* a decoded response record; `to` is the submission it answers
Response(to, error) == [k |-> "resp", to |-> to, error |-> error]

\* how the player may answer a command: a success record, an error record,
\* or bytes that are no JSON record
ReplyKinds == {"success", "property not found", "garbage"}
\* a response record travels as two fragments: head and newline-ended tail
Fragments(to, kind) ==
    <<[to |-> to, kind |-> kind, part |-> 1], [to |-> to, kind |-> kind, part |-> 2]>>

\* json.loads(response) of line 88 succeeds on exactly one whole record
Decodable(bytes) ==
    /\ Len(bytes) = 2
    /\ bytes[1].part = 1
    /\ bytes[2].part = 2
    /\ bytes[1].to = bytes[2].to
    /\ bytes[1].kind # "garbage"
    /\ bytes[2].kind = bytes[1].kind

\* a decoder that keeps the addressee but reports every record as a success
DecodeDroppingError(bytes) == Response(bytes[1].to, "success")

Decode(bytes) == Response(bytes[1].to, bytes[1].kind)

\* handle_mpv_command lines 287-304: the player_status broadcast after the
\* controller call of a branch has returned ("" when the branch emits none)
PlayerStatus(cl) ==
    CASE cl.ev = "play" /\ cl.fn = "play" -> "playing"
      [] cl.ev = "pause" -> "paused"
      [] cl.ev = "resume" -> "resumed"
      [] cl.ev = "stop" -> "stopped"
      [] cl.ev = "volume" -> "volume"
      [] OTHER -> ""

NoEmit == [n |-> 0, success |-> FALSE, command |-> ""]
\* handle_mpv_command line 310: emit('command_result', {'success': result is
\* not None, 'command': command})
CommandResult(cl, res) ==
    IF cl.ev = "" THEN NoEmit
    ELSE [n |-> 1, success |-> (res # None), command |-> cl.ev]

Handles == 1..MaxSockets
NoSocket == [st |-> "none", peer |-> FALSE, inbuf |-> <<>>, srvq |-> <<>>]
\* a socket object after close(): its buffers are gone with the descriptor
ClosedSocket == [st |-> "closed", peer |-> FALSE, inbuf |-> <<>>, srvq |-> <<>>]

\* a socket object that is open at the operating system
IsOpen(s) == socks[s].st \in {"fresh", "conn"}
\* a socket object some thread's blocked recv still refers to
IsHeld(s) == \E c \in Callers : pc[c] = "sc_wait" /\ held[c] = s
\* a socket object the program can still reach
Referenced(s) == s = socket \/ IsHeld(s)

Init ==
    /\ endpoint \in {"absent", "listening"}
    /\ socks = [s \in Handles |-> NoSocket]
    /\ nsock = 0
    /\ socket = 0
    /\ connected = FALSE
    /\ pc = [c \in Callers |-> "idle"]
    /\ call = [c \in Callers |-> NoCall]
    /\ cmd = [c \in Callers |-> <<>>]
    /\ id = [c \in Callers |-> 0]
    /\ held = [c \in Callers |-> 0]
    /\ result = [c \in Callers |-> Pending]
    /\ outcome = [c \in Callers |-> "new"]
    /\ status = [c \in Callers |-> ""]
    /\ cres = [c \in Callers |-> NoEmit]
    /\ nexec = [c \in Callers |-> 0]
    /\ nconn = [c \in Callers |-> 0]
    /\ nwrite = [c \in Callers |-> 0]
    /\ nread = [c \in Callers |-> 0]
    /\ nextId = 1
    /\ unread = 0
    /\ sent = [c \in Callers |-> ""]

\* ---------------------------------------------------------------- steps
Goto(c, label) == pc' = [pc EXCEPT ![c] = label]

\* the controller call of thread c returns res; a handler thread then emits
\* its player_status and command_result (lines 287-310)
Return(c, cl, res, how) ==
    /\ Goto(c, "idle")
    /\ result' = [result EXCEPT ![c] = res]
    /\ outcome' = [outcome EXCEPT ![c] = how]
    /\ status' = [status EXCEPT ![c] = PlayerStatus(cl)]
    /\ cres' = [cres EXCEPT ![c] = CommandResult(cl, res)]

\* an exception that is swallowed: the call returns None at once and the
\* handler that clears self.connected is not reached
RaiseSwallowed(c, why) == Return(c, call[c], None, why)

\* an exception raised inside send_command's try block (lines 81-88)
Raise(c, why) ==
    /\ Goto(c, "sc_except")
    /\ outcome' = [outcome EXCEPT ![c] = why]
    /\ UNCHANGED <<result, emits>>

\* a call arrives at thread c: a direct call of a controller method, or an
\* mpv_command event dispatched by handle_mpv_command (lines 276-308)
Start(c, cl) ==
    /\ pc[c] = "idle"
    /\ nextId <= MaxCalls
    /\ call' = [call EXCEPT ![c] = cl]
    /\ id' = [id EXCEPT ![c] = nextId]
    /\ nextId' = nextId + 1
    /\ held' = [held EXCEPT ![c] = 0]
    /\ sent' = [sent EXCEPT ![c] = ""]
    /\ nexec' = [nexec EXCEPT ![c] = 0]
    /\ nconn' = [nconn EXCEPT ![c] = 0]
    /\ nwrite' = [nwrite EXCEPT ![c] = 0]
    /\ nread' = [nread EXCEPT ![c] = 0]
    /\ IF cl.fn = "none"
       THEN /\ Return(c, cl, None, "nocall")
            /\ cmd' = [cmd EXCEPT ![c] = <<>>]
       ELSE /\ Goto(c, CASE cl.fn = "connect" -> "cn_exists"
                         [] cl.fn = "close" -> "cl_close"
                         [] OTHER -> "sc_check")
            /\ cmd' = [cmd EXCEPT ![c] = Facade(cl.fn, cl.a)]
            /\ result' = [result EXCEPT ![c] = Pending]
            /\ status' = [status EXCEPT ![c] = ""]
            /\ cres' = [cres EXCEPT ![c] = NoEmit]
            /\ UNCHANGED outcome
    /\ UNCHANGED <<ctl, env, wire>>

\* a send_command that reads again when the bytes read are no whole record
OnUndecodableReadAgain(c) ==
    Goto(c, "sc_recv") /\ UNCHANGED <<result, outcome, emits>>

\* a send_command that returns None on undecodable bytes without reaching
\* the handler that clears self.connected
OnUndecodableNoDisconnect(c) == Return(c, call[c], None, "protocol")

\* json.loads raises on bytes that are not one whole record (line 88); the
\* exception is caught at line 89
OnUndecodable(c) == Raise(c, "protocol")

\* send_command line 77: if not self.connected
\* a send_command that makes a connect attempt on every call
sc_check_reconnecting(c) ==
    /\ pc[c] = "sc_check"
    /\ nexec' = [nexec EXCEPT ![c] = @ + 1]
    /\ Goto(c, "cn_exists")
    /\ UNCHANGED <<ctl, env, wire, call, cmd, id, held, sent, result, outcome, emits,
                   nconn, nwrite, nread, nextId>>

sc_check(c) ==
    /\ pc[c] = "sc_check"
    /\ nexec' = [nexec EXCEPT ![c] = @ + 1]
    /\ Goto(c, IF connected THEN "sc_send" ELSE "cn_exists")
    /\ UNCHANGED <<ctl, env, wire, call, cmd, id, held, sent, result, outcome, emits,
                   nconn, nwrite, nread, nextId>>

\* a send_command that goes on to the try block whatever connect() returned
AfterConnectIgnoringFailure(c, ok) ==
    IF call[c].fn = "connect"
    THEN Return(c, call[c], IF ok THEN True ELSE False,
                IF ok THEN "connect_ok" ELSE "connect_failed")
    ELSE Goto(c, "sc_send") /\ UNCHANGED <<result, outcome, emits>>

\* a send_command that calls connect() again when it returned False
AfterConnectRetrying(c, ok) ==
    IF call[c].fn = "connect"
    THEN Return(c, call[c], IF ok THEN True ELSE False,
                IF ok THEN "connect_ok" ELSE "connect_failed")
    ELSE Goto(c, IF ok THEN "sc_send" ELSE "cn_exists")
         /\ UNCHANGED <<result, outcome, emits>>

\* connect() has returned ok to its caller: the startup/direct call gets the
\* boolean, send_command (lines 78-79) goes on to the try block or returns None
AfterConnect(c, ok) ==
    IF call[c].fn = "connect"
    THEN Return(c, call[c], IF ok THEN True ELSE False,
                IF ok THEN "connect_ok" ELSE "connect_failed")
    ELSE IF ok
         THEN Goto(c, "sc_send") /\ UNCHANGED <<result, outcome, emits>>
         ELSE Return(c, call[c], None, "unavailable")

\* connect line 62: os.path.exists(self.socket_path); lines 68-70 when not
cn_exists(c) ==
    /\ pc[c] = "cn_exists"
    /\ nconn' = [nconn EXCEPT ![c] = @ + 1]
    /\ IF endpoint # "absent"
       THEN Goto(c, "cn_create") /\ UNCHANGED <<result, outcome, emits>>
       ELSE AfterConnect(c, FALSE)
    /\ UNCHANGED <<ctl, env, wire, call, cmd, id, held, sent, nexec, nwrite, nread, nextId>>

\* connect line 63: self.socket = socket.socket(AF_UNIX, SOCK_STREAM)
cn_create(c) ==
    /\ pc[c] = "cn_create"
    /\ nsock < MaxSockets
    /\ nsock' = nsock + 1
    /\ socks' = [socks EXCEPT ![nsock + 1] =
                    [st |-> "fresh", peer |-> FALSE, inbuf |-> <<>>, srvq |-> <<>>]]
    /\ socket' = nsock + 1
    /\ Goto(c, "cn_connect")
    /\ UNCHANGED <<endpoint, connected, wire, call, cmd, id, held, sent, result, outcome,
                   emits, counters, nextId>>

\* connect line 64: self.socket.connect(self.socket_path); an exception
\* (nobody listening, or self.socket is not a fresh socket any more) goes to
\* lines 71-73
cn_connect(c) ==
    /\ pc[c] = "cn_connect"
    /\ IF socks[socket].st = "fresh" /\ endpoint = "listening"
       THEN /\ socks' = [socks EXCEPT ![socket].st = "conn", ![socket].peer = TRUE]
            /\ Goto(c, "cn_set")
            /\ UNCHANGED <<result, outcome, emits>>
       ELSE /\ AfterConnect(c, FALSE)
            /\ UNCHANGED socks
    /\ UNCHANGED <<endpoint, nsock, ctl, wire, call, cmd, id, held, sent, counters, nextId>>

\* connect lines 65-67: self.connected = True; return True
cn_set(c) ==
    /\ pc[c] = "cn_set"
    /\ connected' = TRUE
    /\ AfterConnect(c, TRUE)
    /\ UNCHANGED <<socket, env, wire, call, cmd, id, held, sent, counters, nextId>>

\* socket.sendall succeeds on a connected socket whose peer is still there
CanSend(s) == s # 0 /\ socks[s].st = "conn" /\ socks[s].peer

\* send_command lines 82-84: encode and self.socket.sendall(...)
sc_send(c) ==
    /\ pc[c] = "sc_send"
    /\ nwrite' = [nwrite EXCEPT ![c] = @ + 1]
    /\ held' = [held EXCEPT ![c] = socket]
    /\ IF CanSend(socket)
       THEN /\ socks' = [socks EXCEPT ![socket].srvq = Append(@, id[c])]
            /\ unread' = unread + 1
            /\ sent' = [sent EXCEPT ![c] = Encode(cmd[c])]
            /\ Goto(c, "sc_recv")
            /\ UNCHANGED <<result, outcome, emits>>
       ELSE /\ Raise(c, "transport")
            /\ UNCHANGED <<socks, wire, sent>>
    /\ UNCHANGED <<endpoint, nsock, ctl, call, cmd, id, nexec, nconn, nread, nextId>>

\* send_command line 87: self.socket.recv(4096) is entered on the object
\* self.socket names now; it raises at once on a socket that is not connected
sc_recv(c) ==
    /\ pc[c] = "sc_recv"
    /\ nread' = [nread EXCEPT ![c] = @ + 1]
    /\ unread' = IF unread > 0 THEN unread - 1 ELSE 0
    /\ held' = [held EXCEPT ![c] = socket]
    /\ IF socks[socket].st = "conn"
       THEN Goto(c, "sc_wait") /\ UNCHANGED <<result, outcome, emits>>
       ELSE Raise(c, "transport")
    /\ UNCHANGED <<ctl, env, sent, call, cmd, id,
                   nexec, nconn, nwrite, nextId>>

\* send_command lines 87-88: recv returns some of the bytes that have
\* arrived, or b'' once the peer has closed; then `json.loads(response) if
\* response else None`. A recv blocked on a socket object that another
\* thread's close() has closed meanwhile may stay blocked, return b'' or raise.
sc_wait(c) ==
    /\ pc[c] = "sc_wait"
    /\ LET s == held[c] IN
       /\ socks[s].inbuf # <<>> \/ ~socks[s].peer
       /\ IF socks[s].inbuf # <<>>
          THEN \E n \in 1..Len(socks[s].inbuf) :
                 LET bytes == SubSeq(socks[s].inbuf, 1, n) IN
                 /\ socks' = [socks EXCEPT ![s].inbuf =
                                 SubSeq(@, n + 1, Len(@))]
                 /\ IF Decodable(bytes)
                    THEN Return(c, call[c], Decode(bytes), "ok")
                    ELSE OnUndecodable(c)
          ELSE /\ UNCHANGED socks
               /\ IF socks[s].st = "closed"
                  THEN \E raises \in BOOLEAN :
                         IF raises THEN Raise(c, "transport")
                         ELSE Return(c, call[c], None, "eof")
                  ELSE Return(c, call[c], None, "eof")
    /\ UNCHANGED <<endpoint, nsock, ctl, wire, call, cmd, id, held, sent, counters, nextId>>

\* send_command lines 89-92: except Exception: self.connected = False;
\* return None
sc_except(c) ==
    /\ pc[c] = "sc_except"
    /\ connected' = FALSE
    /\ Return(c, call[c], None, outcome[c])
    /\ UNCHANGED <<socket, env, wire, call, cmd, id, held, sent, counters, nextId>>

\* close lines 124-125: if self.socket: self.socket.close()
cl_close(c) ==
    /\ pc[c] = "cl_close"
    /\ IF socket # 0
       THEN /\ socks' = [socks EXCEPT ![socket] = ClosedSocket]
            /\ Goto(c, "cl_flag")
            /\ UNCHANGED <<result, outcome, emits>>
       ELSE /\ Return(c, call[c], None, "closed")
            /\ UNCHANGED socks
    /\ UNCHANGED <<endpoint, nsock, ctl, wire, call, cmd, id, held, sent, counters, nextId>>

\* close line 126: self.connected = False
cl_flag(c) ==
    /\ pc[c] = "cl_flag"
    /\ connected' = FALSE
    /\ Return(c, call[c], None, "closed")
    /\ UNCHANGED <<socket, env, wire, call, cmd, id, held, sent, counters, nextId>>

\* ---------------------------------------------------------------- environment
thread == <<pc, call, cmd, id, held, sent, result, outcome, emits, counters, nextId>>

\* the player answers the oldest unanswered command of a connection (what it
\* does on a connection the program can no longer reach is never observed)
PlayerReply(s, kind) ==
    /\ Referenced(s)
    /\ socks[s].st = "conn"
    /\ socks[s].peer
    /\ socks[s].srvq # <<>>
    /\ socks' = [socks EXCEPT ![s].srvq = Tail(@),
                              ![s].inbuf = @ \o Fragments(Head(socks[s].srvq), kind)]
    /\ UNCHANGED <<endpoint, nsock, ctl, wire, thread>>

\* the player closes its end of a connection
PeerClose(s) ==
    /\ Referenced(s)
    /\ socks[s].st = "conn"
    /\ socks[s].peer
    /\ socks' = [socks EXCEPT ![s].peer = FALSE, ![s].srvq = <<>>]
    /\ UNCHANGED <<endpoint, nsock, ctl, wire, thread>>

\* the player starts or stops listening, or its socket file is removed
EndpointChange(e) ==
    /\ e # endpoint
    /\ endpoint' = e
    /\ UNCHANGED <<socks, nsock, ctl, wire, thread>>

\* the runtime finalizes a socket object nothing refers to any more, which
\* closes it; when it does so is up to the runtime
Finalize(s) ==
    /\ IsOpen(s)
    /\ ~Referenced(s)
    /\ socks' = [socks EXCEPT ![s] = ClosedSocket]
    /\ UNCHANGED <<endpoint, nsock, ctl, wire, thread>>

Environment ==
    \/ \E s \in Handles, kind \in ReplyKinds : PlayerReply(s, kind)
    \/ \E s \in Handles : PeerClose(s)
    \/ \E e \in {"absent", "stale", "listening"} : EndpointChange(e)
    \/ \E s \in Handles : Finalize(s)

\* one step of thread c inside the call it is serving
Thread(c) ==
    \/ sc_check(c)
    \/ cn_exists(c)
    \/ cn_create(c)
    \/ cn_connect(c)
    \/ cn_set(c)
    \/ sc_send(c)
    \/ sc_recv(c)
    \/ sc_wait(c)
    \/ sc_except(c)
    \/ cl_close(c)
    \/ cl_flag(c)

\* what the concurrent threads are given to do: the startup connect, a close,
\* and two mpv_command events
ConcCalls ==
    {[ev |-> "", fn |-> "connect", a |-> Null],
     [ev |-> "", fn |-> "close", a |-> Null],
     handle_mpv_command([command |-> "pause", arg |-> Absent]),
     handle_mpv_command([command |-> "play", arg |-> StrV("a.mp4")])}

\* several handler threads at once on the one global controller; every event
\* is served by a thread of its own, which ends with its handler
Next ==
    \/ \E c \in Callers : \E cl \in ConcCalls : id[c] = 0 /\ Start(c, cl)
    \/ \E c \in Callers : Thread(c)
    \/ Environment
Spec == Init /\ [][Next]_vars

\* one caller: calls are made one after another
NextSeq ==
    \/ \E c \in SeqCallers : \E cl \in Calls : Start(c, cl)
    \/ \E c \in SeqCallers : Thread(c)
    \/ Environment
SpecSeq == Init /\ [][NextSeq]_vars

\* ---------------------------------------------------------------- properties
\* thread c is inside send_command, reached through a facade method
InExecute(c) == call[c].fn \in FacadeFns /\ pc[c] # "idle"
\* thread c has returned from send_command by the path `how`
Returned(c, how) == call[c].fn \in FacadeFns /\ pc[c] = "idle" /\ outcome[c] = how

\* C1: when send_command's connect finds that the socket endpoint does not
\* exist, the call returns the failure value None by the connect-failed path
\* at once, nothing has been or is written to the transport, and
\* self.connected is False before and after the step; during the whole
\* connect attempt of a send_command the controller is never Connected.
C1_UnavailableWhenEndpointAbsent ==
    /\ [](\A c \in Callers :
            (InExecute(c) /\ pc[c] \in {"cn_exists", "cn_create", "cn_connect"})
                => (~connected /\ nwrite[c] = 0 /\ sent[c] = ""))
    /\ [][\A c \in Callers :
            (InExecute(c) /\ pc[c] = "cn_exists" /\ pc'[c] # "cn_exists"
             /\ endpoint = "absent")
                => /\ pc'[c] = "idle"
                   /\ result'[c] = None
                   /\ outcome'[c] = "unavailable"
                   /\ nwrite'[c] = 0 /\ nread'[c] = 0 /\ sent'[c] = ""
                   /\ unread' = unread /\ socks' = socks /\ socket' = socket
                   /\ ~connected /\ ~connected']_vars

\* a send_command has returned None from a missing endpoint: no socket object
\* was ever created, it is not the first call, and nothing was written
C1_Witness ==
    \E c \in Callers :
        /\ Returned(c, "unavailable")
        /\ endpoint = "absent" /\ nsock = 0 /\ id[c] >= 2
        /\ result[c] = None /\ nconn[c] = 1 /\ nwrite[c] = 0 /\ ~connected

\* C2: when recv yields an empty read after the peer closed, the call has
\* failed and the controller is Disconnected when the call returns.
C2_PeerClosureDisconnects ==
    \A c \in Callers :
        Returned(c, "eof") => (result[c] = None /\ ~connected)

\* C3: in the call that follows a send_command that failed on connect, write
\* or read (peer closure included), a connect attempt precedes the sendall.
C3_ReconnectAfterFailure ==
    \A c \in Callers :
        (InExecute(c) /\ pc[c] = "sc_send"
         /\ outcome[c] \in {"unavailable", "transport", "eof"})
            => nconn[c] = 1

\* C4: two threads are never both between their write and their read on the
\* same connection.
C4_OneCommandInFlight ==
    \A a, b \in Callers :
        (a # b /\ pc[a] \in {"sc_recv", "sc_wait"} /\ pc[b] \in {"sc_recv", "sc_wait"})
            => held[a] # held[b]

\* C5: a response returned by send_command answers the command that this very
\* call submitted.
C5_ResponseMatchesCommand ==
    \A c \in Callers : result[c].k = "resp" => result[c].to = id[c]

\* C6: with calls made one after another, the transport sees at most one
\* record that no read has followed, and only while its writer is about to
\* read: every write of a call is followed by exactly one recv of the same
\* call before the call returns and the next call can write; a call writes at
\* most once, and play("a.mp4") and pause() write their own records.
C6_WriteThenOneRead ==
    /\ unread <= 1
    /\ (unread = 1) <=> (\E c \in Callers : pc[c] = "sc_recv")
    /\ \A c \in Callers :
        /\ nwrite[c] <= 1 /\ nread[c] <= 1
        /\ nread[c] = 1 => sent[c] # ""
        /\ (pc[c] = "idle" /\ sent[c] # "") => nread[c] = 1
        /\ (call[c].fn = "play" /\ call[c].a = StrV("a.mp4") /\ sent[c] # "")
              => sent[c] = "{\"command\": [\"loadfile\", \"a.mp4\"]}\n"
        /\ (call[c].fn = "pause" /\ sent[c] # "")
              => sent[c] = "{\"command\": [\"set_property\", \"pause\", true]}\n"

\* a pause() that is not the first call has run on the connection an earlier
\* call opened: one write, one read, the player's answer returned
C6_Witness ==
    \E c \in Callers :
        /\ Returned(c, "ok") /\ call[c].fn = "pause" /\ id[c] >= 2
        /\ nconn[c] = 0 /\ nwrite[c] = 1 /\ nread[c] = 1 /\ unread = 0
        /\ sent[c] = "{\"command\": [\"set_property\", \"pause\", true]}\n"

\* C7: at most one socket of the controller is connected and not closed.
C7_AtMostOneConnection ==
    Cardinality({s \in Handles : socks[s].st = "conn"}) <= 1

\* C8: set_volume(v) with v outside 0..100 never reaches the transport: no
\* connect attempt, no write, no read.
C8_VolumeRangeChecked ==
    \A c \in Callers :
        (call[c].fn = "set_volume" /\ call[c].a.n \notin 0..100)
            => (nconn[c] = 0 /\ nwrite[c] = 0 /\ nread[c] = 0)

\* C9: a facade call enters send_command exactly once and writes at most one
\* record; what set_volume(v), v in 0..100, hands over is the command
\* set_property with arguments ["volume", v], and what it writes is the one
\* record {"command": ["set_property", "volume", v]} and a newline.
C9_FacadeIssuesOneCommand ==
    \A c \in Callers :
        /\ nexec[c] <= 1 /\ nwrite[c] <= 1
        /\ (call[c].fn \in FacadeFns) => nexec[c] = (IF pc[c] = "sc_check" THEN 0 ELSE 1)
        /\ (call[c].fn = "set_volume" /\ call[c].a.n \in 0..100)
              => /\ Len(cmd[c]) = 3
                 /\ cmd[c][1] = StrV("set_property")
                 /\ cmd[c][2] = StrV("volume")
                 /\ cmd[c][3] = IntV(call[c].a.n)
                 /\ sent[c] \in {"", "{\"command\": [\"set_property\", \"volume\", "
                                        \o ToString(call[c].a.n) \o "]}\n"}

\* set_volume(50) has written its record and got the player's answer
C9_Witness ==
    \E c \in Callers :
        /\ Returned(c, "ok") /\ call[c].fn = "set_volume" /\ call[c].ev = ""
        /\ sent[c] = "{\"command\": [\"set_property\", \"volume\", 50]}\n"
        /\ nexec[c] = 1 /\ nwrite[c] = 1

\* C10: one send_command call makes at most one connect attempt and at most
\* one sendall, whatever happens during the call.
C10_NoRetry ==
    \A c \in Callers : nconn[c] <= 1 /\ nwrite[c] <= 1

\* a send_command that connected, then failed in its sendall, has returned
\* after that one connect and that one write attempt
C10_Witness ==
    \E c \in Callers :
        Returned(c, "transport") /\ nconn[c] = 1 /\ nwrite[c] = 1 /\ nread[c] = 0

\* C11 (as stated): after a call whose received bytes could not be decoded,
\* the controller is still Connected.
C11_DecodeFailureKeepsConnection ==
    \A c \in Callers : Returned(c, "protocol") => connected

\* C11 (amended): a call whose received bytes cannot be decoded returns None
\* and leaves the controller Disconnected, and the call after it makes a
\* connect attempt before it sends.
C11_DecodeFailureDisconnects ==
    \A c \in Callers :
        /\ Returned(c, "protocol") => (result[c] = None /\ ~connected)
        /\ (InExecute(c) /\ pc[c] = "sc_send" /\ outcome[c] = "protocol")
              => nconn[c] = 1

\* a call has returned None after reading bytes that are no whole record, on
\* a connection that an earlier call had opened
C11_Witness ==
    \E c \in Callers :
        /\ Returned(c, "protocol") /\ result[c] = None /\ ~connected
        /\ nconn[c] = 0 /\ nread[c] = 1 /\ id[c] >= 2

\* C12: when the player answers get_property("bogus") with the error record
\* "property not found" and the read takes that whole record, send_command
\* returns the decoded record with its error preserved, and the controller
\* stays Connected on the same socket.
C12_PlayerErrorIsReturned ==
    [][\A c \in Callers :
         LET buf == socks[held[c]].inbuf IN
         ( /\ pc[c] = "sc_wait" /\ pc'[c] # "sc_wait"
           /\ call[c].fn = "get_property"
           /\ Len(buf) >= 2
           /\ SubSeq(buf, 1, 2) = Fragments(id[c], "property not found")
           /\ Len(socks'[held[c]].inbuf) = Len(buf) - 2 )
         => /\ pc'[c] = "idle"
            /\ result'[c] = Response(id[c], "property not found")
            /\ connected /\ connected'
            /\ socket' = socket /\ socket = held[c]
            /\ socks'[socket].st = "conn"]_vars

\* get_property("bogus") has returned the player's error record and the
\* controller is still Connected
C12_Witness ==
    \E c \in Callers :
        /\ Returned(c, "ok") /\ call[c].fn = "get_property"
        /\ call[c].a = StrV("bogus")
        /\ result[c] = Response(id[c], "property not found")
        /\ connected /\ socket = held[c] /\ socks[socket].st = "conn"

\* C13: every failure names its condition: two calls that failed for
\* different reasons (player unavailable, transport failure, protocol error)
\* hand their callers different results.
C13_FailuresAreDistinguishable ==
    \A c1, c2 \in Callers :
        ( /\ pc[c1] = "idle" /\ pc[c2] = "idle"
          /\ call[c1].fn \in FacadeFns /\ call[c2].fn \in FacadeFns
          /\ outcome[c1] \in {"unavailable", "transport", "protocol"}
          /\ outcome[c2] \in {"unavailable", "transport", "protocol"}
          /\ outcome[c1] # outcome[c2] )
        => result[c1] # result[c2]

\* C14: every handled mpv_command event has exactly one command_result, and
\* its success is false whenever the command did not succeed: no controller
\* call, connect failed, transport failed, response undecodable, or the
\* player answered with an error record.
C14_CommandResultReportsFailure ==
    \A c \in Callers :
        (pc[c] = "idle" /\ call[c].ev # "")
        => /\ cres[c].n = 1
           /\ cres[c].command = call[c].ev
           /\ ( \/ outcome[c] # "ok"
                \/ result[c].k # "resp"
                \/ result[c].error # "success" )
              => ~cres[c].success

\* C15: a player_status is broadcast only when the controller call of the
\* event succeeded.
C15_StatusOnlyOnSuccess ==
    \A c \in Callers :
        (pc[c] = "idle" /\ status[c] # "")
        => (outcome[c] = "ok" /\ result[c] # None)

\* C16: the receive of send_command is bounded by a timeout, so a call that
\* waits for the response can always go on and return by itself, whether or
\* not the player ever sends anything.
C16_ReceiveIsBounded ==
    \A c \in Callers : pc[c] = "sc_wait" => ENABLED sc_wait(c)

\* C17: when the write of the command fails (broken pipe), no read is
\* attempted, the call returns the failure value, and the controller is
\* Disconnected when it has returned.
C17_WriteFailureDisconnects ==
    \A c \in Callers :
        (nwrite[c] = 1 /\ sent[c] = "" /\ pc[c] # "sc_send")
        => /\ pc[c] \in {"sc_except", "idle"}
           /\ outcome[c] = "transport"
           /\ nread[c] = 0
           /\ pc[c] = "idle" => (result[c] = None /\ ~connected)

\* a call on an established connection whose write failed has returned
C17_Witness ==
    \E c \in Callers :
        /\ Returned(c, "transport") /\ nwrite[c] = 1 /\ sent[c] = ""
        /\ nconn[c] = 0 /\ nread[c] = 0
        /\ result[c] = None /\ ~connected

\* C18: a response is decoded only once a whole newline-ended record has
\* been accumulated: when a well-formed response to the command of thread c
\* is first in the receive buffer, the call returns that response, however
\* the bytes are cut into reads.
C18_WholeRecordFraming ==
    [][\A c \in Callers :
         LET buf == socks[held[c]].inbuf IN
         ( /\ pc[c] = "sc_wait" /\ pc'[c] # "sc_wait"
           /\ Len(buf) >= 2
           /\ SubSeq(buf, 1, 2) \in {Fragments(id[c], "success"),
                                     Fragments(id[c], "property not found")} )
         => /\ pc'[c] = "idle"
            /\ result'[c] = Decode(SubSeq(buf, 1, 2))
            /\ Len(socks'[held[c]].inbuf) = Len(buf) - 2]_vars

\* C19 (as stated): a call that started Connected and completed its write
\* and its read without an I/O error leaves the controller Connected on the
\* same socket, whether or not the bytes it read could be decoded.
C19_NoIOErrorKeepsConnection ==
    \A c \in Callers :
        ( /\ pc[c] = "idle" /\ call[c].fn \in FacadeFns
          /\ nconn[c] = 0 /\ nwrite[c] = 1 /\ nread[c] = 1
          /\ outcome[c] \in {"ok", "protocol"} )
        => (connected /\ socket = held[c])

\* C19 (amended): a call that starts Connected makes no connect attempt, and
\* when it has written, read and decoded one response record it leaves the
\* controller Connected on the socket it started with.
C19_DecodedCallKeepsConnection ==
    /\ [](\A c \in Callers :
            ( /\ call[c].fn \in FacadeFns /\ nconn[c] = 0
              /\ \/ pc[c] \in {"sc_send", "sc_recv", "sc_wait"}
                 \/ Returned(c, "ok") )
            => /\ connected /\ socket # 0
               /\ pc[c] # "sc_send"
                    => (socket = held[c] /\ socks[socket].st = "conn"))
    /\ [][\A c \in Callers :
            (pc[c] = "sc_check" /\ pc'[c] # "sc_check" /\ connected)
            => /\ pc'[c] = "sc_send" /\ nconn'[c] = 0
               /\ connected' /\ socket' = socket /\ socks' = socks]_vars

\* a call that found the controller Connected has returned a decoded
\* response without a connect attempt
C19_Witness ==
    \E c \in Callers :
        /\ Returned(c, "ok") /\ call[c].fn \in FacadeFns
        /\ nconn[c] = 0 /\ nwrite[c] = 1 /\ nread[c] = 1
        /\ connected /\ socket = held[c] /\ socks[socket].st = "conn"

\* C20: whenever no thread is in the middle of connect() or close(),
\* connected = True implies that self.socket is a socket on which connect
\* succeeded and which has not been closed.
C20_ConnectedImpliesLiveSocket ==
    ( /\ connected
      /\ \A c \in Callers : pc[c] \notin {"cn_connect", "cn_set", "cl_flag"} )
    => (socket # 0 /\ socks[socket].st = "conn")

====
